---- MODULE Spec2Model ----
(***************************************************************************)
(* The Processor of scola84/node-app-server: a task queue (async/queue)    *)
(* whose lifecycle is driven by control messages of a publish/subscribe    *)
(* bus.  Two revisions of the Processor are modelled: the one that         *)
(* subscribes to topics and dispatches on the event name (pause, resume,   *)
(* reset, run, done) and the one that receives every message of one path   *)
(* and filters it on its si / pn fields (_publish, _cancel).  The private  *)
(* methods _setup, _clear, _pause, _resume, _run, _process, _stat, _text   *)
(* and _compose are the same in both.                                      *)
(*                                                                         *)
(* A Processor is a record                                                 *)
(*   cfg    its configuration [name, paused, concurrency]                  *)
(*   id     the value of this._server.id()                                 *)
(*   queue  this._queue: Null, or the async queue                          *)
(*            [live, concurrency, paused, tasks, workers, scheduled]       *)
(*          tasks is q._tasks (FIFO), workers the items handed to the      *)
(*          worker and not yet called back (numRunning is its size),       *)
(*          scheduled says a setImmediate(q.process) is outstanding        *)
(*   dead   the items in flight in queues that _clear has killed; the      *)
(*          Processor holds no reference to those queues, their callbacks  *)
(*          still do                                                       *)
(*   subs   the paths subscribed to, one entry per subscribe() call; each  *)
(*          entry carries the handlers that _subscribe registers           *)
(*   out    the observations handed to the logger by the handler that ran  *)
(*          last, in order                                                 *)
(*   ran    the items handed to the Task Runner by the handler that ran    *)
(*          last, in order                                                 *)
(* Timestamps (Date.now()) are left out of the observations.               *)
(***************************************************************************)
EXTENDS Integers, Sequences, FiniteSets, TLC

\* queue.concurrency of the configuration the model runs with.
Concurrency == 2

\* How many run / done messages a behaviour delivers to one Processor.
MaxTasks == 3

\* this._queue = null: no queue.  It is a record with the fields of a queue
\* so that it compares with one; no handler reads it.
Null == [live |-> FALSE, concurrency |-> 0, paused |-> FALSE, tasks |-> <<>>,
         workers |-> {}, scheduled |-> FALSE]
Undefined == "undefined"

OwnId == "10.0.0.1"
OtherId == "10.0.0.2"
OwnName == "p1"
OtherName == "p2"

TaskIds == 1..MaxTasks

--------------------------------------------------------------------------
(* async/queue, as the Processor uses it *)

\* queue(worker, concurrency): a new queue is running, empty and idle.
NewQueue(concurrency) ==
  [live |-> TRUE, concurrency |-> concurrency, paused |-> FALSE, tasks |-> <<>>,
   workers |-> {}, scheduled |-> FALSE]

\* q.idle() that looks at the backlog alone.
MutIdleBacklogOnly(q) == Len(q.tasks) = 0

\* q.idle()
Idle(q) == Len(q.tasks) + Cardinality(q.workers) = 0

--------------------------------------------------------------------------
(* Processor: observations *)

\* [name, id, Date.now(), 0, value]
_compose(p, name, value) ==
  [metric |-> <<p.cfg.name, name>>, id |-> p.id, reserved |-> 0, value |-> value]

_stat(p, name, value) ==
  [p EXCEPT !.out = Append(@, [sink |-> "stat", record |-> _compose(p, name, value)])]

\* _text that hands the record to logger().stat.
MutTextToStat(p, name, value) ==
  [p EXCEPT !.out = Append(@, [sink |-> "stat", record |-> _compose(p, name, value)])]

_text(p, name, value) ==
  [p EXCEPT !.out = Append(@, [sink |-> "text", record |-> _compose(p, name, value)])]

--------------------------------------------------------------------------
(* Processor: the worker and the queue's dispatch loop *)

\* The worker of the queue: hands the item to the Task Runner
\* (config.task().config().data(data).server().run(callback)).
_process(p, t) == [p EXCEPT !.ran = Append(@, t)]

\* q.process() without the test of numRunning against the concurrency.
RECURSIVE MutProcessUnbounded(_)
MutProcessUnbounded(p) ==
  IF ~p.queue.paused /\ Len(p.queue.tasks) > 0
  THEN LET t == Head(p.queue.tasks)
           shifted == [p EXCEPT !.queue.tasks = Tail(@),
                                !.queue.workers = @ \cup {t}]
       IN MutProcessUnbounded(_process(shifted, t))
  ELSE p

\* q.process() without the test of q.paused.
RECURSIVE MutProcessIgnoresPause(_)
MutProcessIgnoresPause(p) ==
  IF /\ Cardinality(p.queue.workers) < p.queue.concurrency
     /\ Len(p.queue.tasks) > 0
  THEN LET t == Head(p.queue.tasks)
           shifted == [p EXCEPT !.queue.tasks = Tail(@),
                                !.queue.workers = @ \cup {t}]
       IN MutProcessIgnoresPause(_process(shifted, t))
  ELSE p

\* q.process(): while the queue is not paused, a worker is free and an item
\* is pending, shift the first item, count it as running, call the worker.
RECURSIVE QueueProcess(_)
QueueProcess(p) ==
  IF /\ ~p.queue.paused
     /\ Cardinality(p.queue.workers) < p.queue.concurrency
     /\ Len(p.queue.tasks) > 0
  THEN LET t == Head(p.queue.tasks)
           shifted == [p EXCEPT !.queue.tasks = Tail(@),
                                !.queue.workers = @ \cup {t}]
       IN QueueProcess(_process(shifted, t))
  ELSE p

--------------------------------------------------------------------------
(* Processor: lifecycle *)

\* _pause without the call of q.pause().
MutPauseStatOnly(p) == _stat(p, "paused", 1)

_pause(p) == _stat([p EXCEPT !.queue.paused = TRUE], "paused", 1)

\* _resume that emits only when the queue was paused.
MutResumeQuietWhenRunning(p) ==
  IF p.queue.paused
  THEN _stat([p EXCEPT !.queue.paused = FALSE, !.queue.scheduled = TRUE],
             "paused", 0)
  ELSE p

\* q.resume() returns at once when the queue is not paused; otherwise it
\* clears the flag and schedules q.process.
_resume(p) ==
  LET resumed == IF p.queue.paused
                 THEN [p EXCEPT !.queue.paused = FALSE, !.queue.scheduled = TRUE]
                 ELSE p
  IN _stat(resumed, "paused", 0)

\* _setup without the test of config.queue.paused.
MutSetupRunning(p) == _resume([p EXCEPT !.queue = NewQueue(p.cfg.concurrency)])

_setup(p) ==
  LET built == [p EXCEPT !.queue = NewQueue(p.cfg.concurrency)]
  IN IF p.cfg.paused = TRUE THEN _pause(built) ELSE _resume(built)

\* q.kill() empties q._tasks and replaces q.drain by a no-op; the items in
\* flight stay with their workers, and q.error stays set.
_clear(p) ==
  IF p.queue # Null
  THEN [p EXCEPT !.dead = @ \cup p.queue.workers, !.queue = Null]
  ELSE p

\* _reset that applies the configured pause flag to the queue it has, without
\* _clear and without a new queue.
MutResetKeepsQueue(p) == IF p.cfg.paused = TRUE THEN _pause(p) ELSE _resume(p)

\* _reset that subscribes to the two topics again, as start does.
MutResetResubscribes(p) ==
  _setup([_clear(p) EXCEPT
            !.subs = @ \o <<<<p.cfg.name, "proc">>, <<p.cfg.name, "task">>>>])

\* _reset without the call of _setup.
MutResetClearsOnly(p) == _clear(p)

_reset(p) == _setup(_clear(p))

\* _run without the test of q.paused.
MutRunAlways(p, t) ==
  _stat([p EXCEPT !.queue.tasks = Append(@, t), !.queue.scheduled = TRUE],
        "task", 1)

\* How often the bus delivers one run or done message.
Deliveries == 2

\* The items are numbered by delivery; the message that delivery t carries.
Payload(t) == (t + Deliveries - 1) \div Deliveries

\* _run that drops a message whose payload is that of an item pending or in
\* flight.
MutRunDeduplicates(p, t) ==
  IF p.queue.paused = TRUE
  THEN p
  ELSE IF \E i \in 1..Len(p.queue.tasks) : Payload(p.queue.tasks[i]) = Payload(t)
       THEN p
       ELSE IF \E u \in p.queue.workers : Payload(u) = Payload(t)
            THEN p
            ELSE _stat([p EXCEPT !.queue.tasks = Append(@, t),
                                 !.queue.scheduled = TRUE], "task", 1)

\* _run with q.unshift(data) in the place of q.push(data).
MutRunUnshift(p, t) ==
  IF p.queue.paused = TRUE
  THEN p
  ELSE _stat([p EXCEPT !.queue.tasks = <<t>> \o @, !.queue.scheduled = TRUE],
             "task", 1)

\* _run without the call of _stat.
MutRunSilent(p, t) ==
  IF p.queue.paused = TRUE
  THEN p
  ELSE [p EXCEPT !.queue.tasks = Append(@, t), !.queue.scheduled = TRUE]

\* q.push(data) appends the item and schedules q.process.
_run(p, t) ==
  IF p.queue.paused = TRUE
  THEN p
  ELSE _stat([p EXCEPT !.queue.tasks = Append(@, t), !.queue.scheduled = TRUE],
             "task", 1)

\* subscribe(path) and the five handlers registered on the subscription.
_subscribe(p, path) == [p EXCEPT !.subs = Append(@, path)]

\* The topics of a Processor: '/' + name + '.proc' and '/' + name + '.task'.
Suffixes == <<"proc", "task">>
Path(name, suffix) == <<name, suffix>>

\* start(): one subscription per topic, then _setup().
start(p) ==
  _setup(_subscribe(_subscribe(p, Path(p.cfg.name, Suffixes[1])),
                    Path(p.cfg.name, Suffixes[2])))

\* start() of the message-filtering revision: one subscription, to
\* config.pubsub.path, whose handler is _publish; then _setup().
PubsubPath == <<"pubsub", "path">>
startFilter(p) == _setup(_subscribe(p, PubsubPath))

\* new Processor().config(config).server(server)
Construct(cfg, id) ==
  [cfg |-> cfg, id |-> id, queue |-> Null, dead |-> {}, subs |-> <<>>,
   out |-> <<>>, ran |-> <<>>]

\* error.message of the error the Task Runner of item t reports.
ErrorMessage(t) == <<"message", t>>

\* The callback without the q.process() that starts the next item.
MutCallbackNoProcess(p, t, err) ==
  IF p.queue # Null /\ t \in p.queue.workers
  THEN LET freed == [p EXCEPT !.queue.workers = @ \ {t}]
           failed == IF err THEN _text(freed, "error", ErrorMessage(t)) ELSE freed
       IN IF Idle(failed.queue) THEN _stat(failed, "run", 0) ELSE failed
  ELSE LET freed == [p EXCEPT !.dead = @ \ {t}]
       IN IF err THEN _text(freed, "error", ErrorMessage(t)) ELSE freed

\* The callback with run = 0 emitted at every report, idle queue or not.
MutCallbackDrainsAlways(p, t, err) ==
  IF p.queue # Null /\ t \in p.queue.workers
  THEN LET freed == [p EXCEPT !.queue.workers = @ \ {t}]
           failed == IF err THEN _text(freed, "error", ErrorMessage(t)) ELSE freed
       IN QueueProcess(_stat(failed, "run", 0))
  ELSE LET freed == [p EXCEPT !.dead = @ \ {t}]
       IN IF err THEN _text(freed, "error", ErrorMessage(t)) ELSE freed

\* The callback whose drain handler pauses the queue.
MutCallbackDrainPauses(p, t, err) ==
  IF p.queue # Null /\ t \in p.queue.workers
  THEN LET freed == [p EXCEPT !.queue.workers = @ \ {t}]
           failed == IF err THEN _text(freed, "error", ErrorMessage(t)) ELSE freed
           drained == IF Idle(failed.queue)
                      THEN _stat([failed EXCEPT !.queue.paused = TRUE], "run", 0)
                      ELSE failed
       IN QueueProcess(drained)
  ELSE LET freed == [p EXCEPT !.dead = @ \ {t}]
       IN IF err THEN _text(freed, "error", ErrorMessage(t)) ELSE freed

\* The callback the queue hands to the worker for item t (async's _next):
\* the item stops running; a failure goes to q.error; an idle queue fires
\* q.drain; then q.process() runs.  For an item of a killed queue q.drain is
\* the no-op kill() installed and q._tasks is empty, q.error is unchanged.
Callback(p, t, err) ==
  IF p.queue # Null /\ t \in p.queue.workers
  THEN LET freed == [p EXCEPT !.queue.workers = @ \ {t}]
           failed == IF err THEN _text(freed, "error", ErrorMessage(t)) ELSE freed
           drained == IF Idle(failed.queue) THEN _stat(failed, "run", 0) ELSE failed
       IN QueueProcess(drained)
  ELSE LET freed == [p EXCEPT !.dead = @ \ {t}]
       IN IF err THEN _text(freed, "error", ErrorMessage(t)) ELSE freed

\* The handlers without the one of done.
MutHandleNoDone(p, event, t) ==
  CASE event = "pause" -> _pause(p)
    [] event = "reset" -> _reset(p)
    [] event = "resume" -> _resume(p)
    [] event = "run" -> _run(p, t)
    [] OTHER -> p

\* The handler a subscription runs for an event of its topic.
Handle(p, event, t) ==
  CASE event = "done" -> _run(p, t)
    [] event = "pause" -> _pause(p)
    [] event = "reset" -> _reset(p)
    [] event = "resume" -> _resume(p)
    [] event = "run" -> _run(p, t)
    [] OTHER -> p

\* An event published on a path runs the handler of every subscription to
\* that path, in subscription order.
RECURSIVE Emit(_, _, _, _, _)
Emit(p, subs, path, event, t) ==
  IF subs = <<>> THEN p
  ELSE Emit(IF Head(subs) = path THEN Handle(p, event, t) ELSE p,
            Tail(subs), path, event, t)

--------------------------------------------------------------------------
(* The message-filtering revision: one path, the action in the message *)

\* _cancel with the comparison of si inverted.
MutCancelInverted(p, data) ==
  IF data.si # Undefined THEN data.si = p.id
  ELSE IF data.pn # Undefined THEN data.pn # p.cfg.name
  ELSE FALSE

\* _cancel with the comparison of pn against the server id.
MutCancelPartitionId(p, data) ==
  IF data.si # Undefined THEN data.si # p.id
  ELSE IF data.pn # Undefined THEN data.pn # p.id
  ELSE FALSE

\* _cancel without the pn branch.
MutCancelNoPartition(p, data) ==
  IF data.si # Undefined THEN data.si # p.id
  ELSE FALSE

_cancel(p, data) ==
  IF data.si # Undefined THEN data.si # p.id
  ELSE IF data.pn # Undefined THEN data.pn # p.cfg.name
  ELSE FALSE

\* _publish that runs the message when its action is none of pause, reset
\* and resume.
MutPublishRunsByDefault(p, data) ==
  IF _cancel(p, data) = TRUE
  THEN [proc |-> p, ret |-> FALSE]
  ELSE LET a == IF data.action = "pause" THEN _pause(p) ELSE p
           b == IF data.action = "reset" THEN _setup(_clear(a)) ELSE a
           c == IF data.action = "resume" THEN _resume(b) ELSE b
           d == IF data.action \notin {"pause", "reset", "resume"}
                THEN _run(c, data.task) ELSE c
       IN [proc |-> d, ret |-> TRUE]

\* Returns the Processor after the message and the value _publish returns.
_publish(p, data) ==
  IF _cancel(p, data) = TRUE
  THEN [proc |-> p, ret |-> FALSE]
  ELSE LET a == IF data.action = "pause" THEN _pause(p) ELSE p
           b == IF data.action = "reset" THEN _setup(_clear(a)) ELSE a
           c == IF data.action = "resume" THEN _resume(b) ELSE b
           d == IF data.action = "run" THEN _run(c, data.task) ELSE c
       IN [proc |-> d, ret |-> TRUE]

--------------------------------------------------------------------------
(* The Server: registration and start of its Processors *)

\* this._id before start().
NoId == "null"

\* How many Processors are registered with a Server.
MaxProcessors == 2

\* How many run messages the Processors of a Server receive in all.
MaxServerItems == 1

\* What a call of the Server did, in order (history kept with the Server).
Effect(op, arg) == [op |-> op, arg |-> arg]

\* new Server()
NewServer ==
  [destroyed |-> FALSE, id |-> NoId, auth |-> "none", cache |-> "none",
   database |-> "none", pubsub |-> "none", httpServer |-> "none",
   wsServer |-> "none", calls |-> 0, processors |-> <<>>, items |-> 0,
   router |-> <<>>, log |-> <<>>]

\* server.auth(dao), server.cache(client), server.database(value)
ServerConfigure(srv, part) ==
  CASE part = "auth" -> [srv EXCEPT !.auth = "set"]
    [] part = "cache" -> [srv EXCEPT !.cache = "set"]
    [] part = "database" -> [srv EXCEPT !.database = "set"]

\* _httpInstance(options): the one HttpServer, made by the first of http()
\* and ws() and listening from then on.
_httpInstance(srv) ==
  IF srv.httpServer = "none" THEN [srv EXCEPT !.httpServer = "open"] ELSE srv

\* server.http(options)
ServerHttp(srv) == _httpInstance(srv)

\* server.ws(options): the WsServer sits on the HttpServer.
ServerWs(srv) == [_httpInstance(srv) EXCEPT !.wsServer = "open"]

\* The callback handed to destroy() is called.
Called(srv) ==
  [srv EXCEPT !.calls = @ + 1, !.log = Append(@, Effect("callback", 0))]

\* _closeHttp(callback): an open HttpServer is asked to close and calls
\* back when it has; without one the callback is called at once.
_closeHttp(srv) ==
  IF srv.httpServer = "open"
  THEN [srv EXCEPT !.httpServer = "closing",
                   !.log = Append(@, Effect("http.close", 0))]
  ELSE Called(srv)

\* _closeWs without the return after wsServer.close(callback).
MutCloseWsFallsThrough(srv) ==
  IF srv.wsServer = "open"
  THEN _closeHttp([srv EXCEPT !.wsServer = "closing",
                              !.log = Append(@, Effect("ws.close", 0))])
  ELSE _closeHttp(srv)

\* _closeWs(code, reason, callback), the callback being _closeHttp: an open
\* WsServer is asked to close and calls back when it has; without one the
\* callback is called at once.
_closeWs(srv) ==
  IF srv.wsServer = "open"
  THEN [srv EXCEPT !.wsServer = "closing",
                   !.log = Append(@, Effect("ws.close", 0))]
  ELSE _closeHttp(srv)

\* The WsServer has closed and calls back.
WsServerClosed(srv) ==
  _closeHttp([srv EXCEPT !.wsServer = "closed",
                         !.log = Append(@, Effect("ws.closed", 0))])

\* The HttpServer has closed and calls back.
HttpServerClosed(srv) ==
  Called([srv EXCEPT !.httpServer = "closed",
                     !.log = Append(@, Effect("http.closed", 0))])

\* Server.destroy(code, reason, callback): destroys auth, cache and pubsub
\* and closes the database where there is one, then _closeWs.
ServerDestroy(srv) ==
  _closeWs([srv EXCEPT
    !.destroyed = TRUE,
    !.auth = IF @ = "none" THEN @ ELSE "destroyed",
    !.cache = IF @ = "none" THEN @ ELSE "destroyed",
    !.pubsub = IF @ = "none" THEN @ ELSE "destroyed",
    !.database = IF @ = "none" THEN @ ELSE "destroyed"])

\* A Processor reads server.id() when it composes a record: its id is the
\* Server's.
Identify(srv) ==
  [srv EXCEPT !.processors =
     [i \in 1..Len(srv.processors) |-> [srv.processors[i] EXCEPT !.id = srv.id]]]

\* server.pubsub(options)
ServerPubsub(srv) == [srv EXCEPT !.pubsub = "configured"]

\* server.processor(config)
ServerProcessor(srv, cfg) ==
  [srv EXCEPT !.processors = Append(@, Construct(cfg, srv.id)),
              !.log = Append(@, Effect("registered", Len(srv.processors) + 1))]

\* this._processors.forEach((processor) => processor.start())
RECURSIVE StartProcessors(_, _)
StartProcessors(srv, i) ==
  IF i > Len(srv.processors) THEN srv
  ELSE StartProcessors([srv EXCEPT !.processors[i] = start(@),
                                   !.log = Append(@, Effect("start", i))], i + 1)

\* start() with the Processors started before the id is assigned and the
\* pubsub opened.
MutStartProcessorsFirst(srv) ==
  LET a == IF srv.pubsub # "none" THEN StartProcessors(srv, 1) ELSE srv
      b == Identify([a EXCEPT !.id = OwnId, !.log = Append(@, Effect("id", 0))])
  IN IF b.pubsub # "none"
     THEN [b EXCEPT !.pubsub = "open", !.log = Append(@, Effect("open", 0))]
     ELSE b

\* Server.start(): the id, the pubsub, the Processors.  Without a pubsub
\* the start of the first Processor throws in _subscribe (pubsub() is null)
\* and no Processor is started.
ServerStart(srv) ==
  LET a == Identify([srv EXCEPT !.id = OwnId, !.log = Append(@, Effect("id", 0))])
  IN IF a.pubsub # "none"
     THEN StartProcessors([a EXCEPT !.pubsub = "open",
                                    !.log = Append(@, Effect("open", 0))], 1)
     ELSE a

--------------------------------------------------------------------------
(* Route *)

\* No value: null.
NoValue == 0

\* The methods of get(), post(), put() and delete().
Methods == {"GET", "POST", "PUT", "DELETE"}

\* A function of a chain: what made it and the value it was made of (the
\* handler given to the builder method, the mode of a cached(), NoValue else).
Handler(kind, of) == [kind |-> kind, of |-> of]

\* new Route().server(server)
NewRoute ==
  [allow |-> <<>>, authorize |-> <<>>, cache |-> NoValue, invert |-> "null",
   method |-> "null", mode |-> "object", publish |-> <<>>, respond |-> NoValue,
   subscribe |-> <<>>, validate |-> <<>>, calls |-> <<>>]

\* allow(value), authorize(value), cache(value), publish(path, event,
\* handler), respond(value), subscribe(path, event, handler),
\* validate(value); calls is the history of the builder calls.
Build(r, name, value) ==
  LET c == [r EXCEPT !.calls = Append(@, name)] IN
  CASE name = "allow" -> [c EXCEPT !.allow = Append(@, value)]
    [] name = "authorize" -> [c EXCEPT !.authorize = Append(@, value)]
    [] name = "cache" -> [c EXCEPT !.cache = value]
    [] name = "publish" -> [c EXCEPT !.publish = Append(@, value)]
    [] name = "respond" -> [c EXCEPT !.respond = value]
    [] name = "subscribe" -> [c EXCEPT !.subscribe = Append(@, value)]
    [] name = "validate" -> [c EXCEPT !.validate = Append(@, value)]

\* mode(value, invert = false)
RouteMode(r, value, invert) ==
  [r EXCEPT !.mode = value, !.invert = invert, !.calls = Append(@, "mode")]

\* forEach(handler => handlers.push(...)) over one of the lists
Each(kind, list) == [i \in 1..Len(list) |-> Handler(kind, list[i])]

_addValidate(r) == Each("validate", r.validate)

_addAllow(r) == Each("allow", r.allow)

_addAuthorize(r) == Each("authorize", r.authorize)

_addCache(r) ==
  (IF r.mode = "list" /\ r.invert = "false"
   THEN <<Handler("cached", "total")>> ELSE <<>>)
  \o <<Handler("cached", r.mode)>>
  \o (IF r.mode = "list" /\ r.invert = "true"
      THEN <<Handler("cached", "total")>> ELSE <<>>)

_addQuery(r) ==
  IF r.cache # NoValue THEN _addCache(r) ELSE <<Handler("query", NoValue)>>

_addRespond(r) ==
  (IF r.respond # NoValue THEN <<Handler("respond", r.respond)>> ELSE <<>>)
  \o (IF r.cache # NoValue THEN <<Handler("respond()", NoValue)>>
      ELSE <<Handler("end", NoValue)>>)

_addPublish(r) == Each("publish", r.publish)

_addSubscribe(r) == <<Handler("subscribe", NoValue)>>

\* The handlers of _open, the subscribe handler put before the publish
\* handlers.
MutHandlersSubscribeFirst(r) ==
  _addValidate(r) \o _addAllow(r) \o _addAuthorize(r) \o _addQuery(r)
    \o _addRespond(r) \o _addSubscribe(r) \o _addPublish(r)

\* The handlers _open(r) collects.
Handlers(r) ==
  _addValidate(r) \o _addAllow(r) \o _addAuthorize(r) \o _addQuery(r)
    \o _addRespond(r) \o _addPublish(r) \o _addSubscribe(r)

\* _open(): router.route(method, route, ...handlers), and extract() unless
\* the method is GET; at is the number of builder calls made before.
_open(srv, r) ==
  [srv EXCEPT !.router = Append(@,
     [method |-> r.method, handlers |-> Handlers(r),
      extract |-> r.method # "GET", at |-> Len(r.calls)])]

\* get(route, query), post(route, query), put(route, query),
\* delete(route, query)
RouteMethod(r, method) == [r EXCEPT !.method = method]

--------------------------------------------------------------------------
(* One Processor and its environment *)

\* How many run messages a behaviour publishes to the filtering Processor.
MaxPublished == 2

\* How many messages a behaviour publishes to the fleet.
MaxFleetMsgs == 2

\* The fleet: three hosts, two of them in one partition.
Hosts ==
  <<[id |-> OwnId, name |-> OwnName],
    [id |-> OtherId, name |-> OwnName],
    [id |-> "10.0.0.3", name |-> OtherName]>>
Insts == 1..Len(Hosts)

VARIABLES
  fleet,     \* the Processors of the fleet, one per host
  sent,      \* how many messages were published to the fleet
  flast,     \* history: the last message published to the fleet
  proc,      \* the Processor
  nextId,    \* the identity of the next item a run / done message carries
  prev,      \* history: the Processor before the last step
  last,      \* history: the last step
  invoked,   \* history: how often each item was handed to the Task Runner
  admitted,  \* history: the items _run pushed
  refused,   \* history: the items whose run / done message found the queue
             \* paused
  abandoned, \* history: the items that were pending in a queue when a reset
             \* killed it
  held,      \* history: the items whose run / done message came right after
             \* a pause, no resume since
  parked,    \* history: the items that were pending when a pause came and
             \* had not been handed to the Task Runner before the last step
  seen,      \* history: how many observations of a kind were emitted
  server,    \* the Server that owns the Processor
  route      \* the Route the Server handed out

history == <<invoked, admitted, refused, abandoned, held>>
sideVars == <<parked, seen, server, route>>
procVars ==
  <<proc, nextId, prev, last, invoked, admitted, refused, abandoned, held,
    parked, seen, server, route>>
fleetVars == <<fleet, sent, flast>>
vars ==
  <<fleet, sent, flast, proc, nextId, prev, last, invoked, admitted, refused,
    abandoned, held, parked, seen, server, route>>

\* No observation emitted yet.
NoneSeen == [paused0 |-> 0, drain |-> 0, early |-> 0]

Actions == {"pause", "reset", "resume", "run", "noop"}
Targets == {Undefined, OwnId, OtherId}
Partitions == {Undefined, OwnName, OtherName}

Step(op, name, si, pn, task, err, ret) ==
  [op |-> op, name |-> name, si |-> si, pn |-> pn, task |-> task, err |-> err,
   ret |-> ret]

\* A handler starts with nothing emitted and nothing handed to the runner.
Fresh(p) == [p EXCEPT !.out = <<>>, !.ran = <<>>]

Range(s) == {s[i] : i \in 1..Len(s)}
Count(s, x) == Cardinality({i \in 1..Len(s) : s[i] = x})

\* The history the steps share: the runner's invocations and the admissions.
Track(p) ==
  /\ invoked' = [t \in TaskIds |-> invoked[t] + Count(p.ran, t)]
  /\ admitted' = admitted \cup (IF p.queue = Null THEN {} ELSE Range(p.queue.tasks))

\* The items a pause found pending, without those that had been handed to
\* the Task Runner before the step.
Waiting == parked \ {t \in TaskIds : invoked[t] > 0}

Message(action, si, pn, task) ==
  [action |-> action, si |-> si, pn |-> pn, task |-> task]

Member(i) ==
  Construct([name |-> Hosts[i].name, paused |-> FALSE,
             concurrency |-> Concurrency], Hosts[i].id)

\* The value of flast when the last step of the fleet delivered no message.
NoDelivery(f) ==
  [data |-> Message("noop", Undefined, Undefined, 0),
   ret |-> [i \in Insts |-> FALSE], before |-> f]

\* One Processor, constructed and not started; no fleet.
Init ==
  /\ fleet = <<>>
  /\ sent = 0
  /\ flast = NoDelivery(<<>>)
  /\ \E paused \in BOOLEAN :
       proc = Construct([name |-> OwnName, paused |-> paused,
                         concurrency |-> Concurrency], OwnId)
  /\ nextId = 1
  /\ prev = proc
  /\ last = Step("new", "", Undefined, Undefined, 0, FALSE, TRUE)
  /\ invoked = [t \in TaskIds |-> 0]
  /\ admitted = {}
  /\ refused = {}
  /\ abandoned = {}
  /\ held = {}
  /\ parked = {}
  /\ seen = NoneSeen
  /\ server = NewServer
  /\ route = NewRoute

\* Server.start() starts the Processor.
Start ==
  /\ proc.subs = <<>>
  /\ proc' = start(Fresh(proc))
  /\ prev' = proc
  /\ last' = Step("start", "", Undefined, Undefined, 0, FALSE, TRUE)
  /\ Track(proc')
  /\ UNCHANGED <<nextId, held, refused, abandoned, fleetVars, sideVars>>

\* Server.start() starts the Processor of the message-filtering revision.
StartFilter ==
  /\ proc.subs = <<>>
  /\ proc' = startFilter(Fresh(proc))
  /\ prev' = proc
  /\ last' = Step("start", "", Undefined, Undefined, 0, FALSE, TRUE)
  /\ UNCHANGED <<nextId, history, fleetVars, sideVars>>

\* The bus delivers a pause, reset or resume event of a subscribed topic.
ControlStep(suffix, event) ==
  /\ Path(proc.cfg.name, suffix) \in Range(proc.subs)
  /\ proc' = Emit(Fresh(proc), proc.subs, Path(proc.cfg.name, suffix), event, 0)
  /\ prev' = proc
  /\ last' = Step("event", event, Undefined, Undefined, 0, FALSE, TRUE)
  /\ Track(proc')
  /\ UNCHANGED <<nextId, refused, fleetVars, seen, server, route>>

Control(suffix, event) ==
  /\ ControlStep(suffix, event)
  /\ held' = IF event = "resume" THEN {} ELSE held
  /\ abandoned' = IF event = "reset"
                  THEN abandoned \cup Range(proc.queue.tasks) ELSE abandoned
  /\ UNCHANGED parked

LiveControl(suffix, event) ==
  /\ ControlStep(suffix, event)
  /\ parked' = IF event = "pause"
               THEN Waiting \cup Range(proc.queue.tasks) ELSE Waiting
  /\ UNCHANGED <<held, abandoned>>

\* The bus delivers a run or done event of a subscribed topic.
EnqueueStep(suffix, event) ==
  /\ Path(proc.cfg.name, suffix) \in Range(proc.subs)
  /\ nextId <= MaxTasks
  /\ proc' = Emit(Fresh(proc), proc.subs, Path(proc.cfg.name, suffix), event, nextId)
  /\ nextId' = nextId + 1
  /\ prev' = proc
  /\ last' = Step("event", event, Undefined, Undefined, nextId, FALSE, TRUE)
  /\ Track(proc')
  /\ UNCHANGED <<abandoned, fleetVars, seen, server, route>>

Enqueue(suffix, event) ==
  /\ EnqueueStep(suffix, event)
  /\ UNCHANGED parked
  /\ held' = IF last.op = "event" /\ last.name = "pause"
             THEN held \cup {nextId} ELSE held
  /\ refused' = IF proc.queue.paused THEN refused \cup {nextId} ELSE refused

LiveEnqueue(suffix, event) ==
  /\ EnqueueStep(suffix, event)
  /\ parked' = Waiting
  /\ UNCHANGED <<held, refused>>

\* The bus delivers a message of the single path to _publish.
Publish(action, si, pn) ==
  /\ PubsubPath \in Range(proc.subs)
  /\ action = "run" => nextId <= MaxPublished
  /\ LET data == Message(action, si, pn, nextId)
         r == _publish(Fresh(proc), data)
     IN /\ proc' = r.proc
        /\ last' = Step("publish", action, si, pn,
                        IF action = "run" THEN nextId ELSE 0, FALSE, r.ret)
  /\ nextId' = IF action = "run" THEN nextId + 1 ELSE nextId
  /\ prev' = proc
  /\ UNCHANGED <<history, fleetVars, sideVars>>

\* The event loop runs the q.process that push or resume scheduled.
RunImmediate ==
  /\ proc.queue # Null
  /\ proc.queue.scheduled
  /\ proc' = QueueProcess([Fresh(proc) EXCEPT !.queue.scheduled = FALSE])
  /\ prev' = proc
  /\ last' = Step("immediate", "", Undefined, Undefined, 0, FALSE, TRUE)
  /\ UNCHANGED <<nextId, held, refused, abandoned, fleetVars, seen, server, route>>

Immediate == RunImmediate /\ Track(proc') /\ UNCHANGED parked

LiveImmediate == RunImmediate /\ Track(proc') /\ parked' = Waiting

FilterImmediate == RunImmediate /\ UNCHANGED <<invoked, admitted, parked>>

\* A Task Runner reports completion (err = FALSE) or failure (err = TRUE).
Report(t, err) ==
  /\ t \in proc.dead \cup (IF proc.queue = Null THEN {} ELSE proc.queue.workers)
  /\ proc' = Callback(Fresh(proc), t, err)
  /\ prev' = proc
  /\ last' = Step("done", "", Undefined, Undefined, t, err, TRUE)
  /\ UNCHANGED <<nextId, held, refused, abandoned, fleetVars, seen, server, route>>

Done(t, err) == Report(t, err) /\ Track(proc') /\ UNCHANGED parked

LiveDone(t, err) == Report(t, err) /\ Track(proc') /\ parked' = Waiting

FilterDone(t, err) == Report(t, err) /\ UNCHANGED <<invoked, admitted, parked>>

\* The Processor that subscribes to its topics.
Next ==
  \/ Start
  \/ \E s \in Range(Suffixes), e \in {"pause", "reset", "resume"} : Control(s, e)
  \/ \E s \in Range(Suffixes), e \in {"done", "run"} : Enqueue(s, e)
  \/ Immediate
  \/ \E t \in TaskIds, err \in BOOLEAN : Done(t, err)

Spec == Init /\ [][Next]_vars

\* The Processor that subscribes to its topics and receives no reset.  The
\* event loop runs what setImmediate scheduled, and every Task Runner
\* reports in the end.  Of the history it keeps the invocations, the
\* admissions and the items a pause found pending.
LiveNext ==
  \/ Start
  \/ \E s \in Range(Suffixes), e \in {"pause", "resume"} : LiveControl(s, e)
  \/ \E s \in Range(Suffixes), e \in {"done", "run"} : LiveEnqueue(s, e)
  \/ LiveImmediate
  \/ \E t \in TaskIds, err \in BOOLEAN : LiveDone(t, err)

Fairness ==
  /\ WF_vars(LiveImmediate)
  /\ \A t \in TaskIds : WF_vars(\E err \in BOOLEAN : LiveDone(t, err))

LiveSpec == Init /\ [][LiveNext]_vars /\ Fairness

\* The Processor that filters the messages of one path.
\* The history of the runner's invocations is not kept here.
FilterNext ==
  \/ StartFilter
  \/ \E a \in Actions \cup {Undefined}, si \in Targets, pn \in Partitions :
       Publish(a, si, pn)
  \/ FilterImmediate
  \/ \E t \in TaskIds, err \in BOOLEAN : FilterDone(t, err)

FilterSpec == Init /\ [][FilterNext]_vars

--------------------------------------------------------------------------
(* The Server that owns the Processor is destroyed *)

\* Server.destroy(): unbinds the listeners, destroys auth, cache and pubsub,
\* closes the database, the websocket server and the http server.  It calls
\* nothing of the Processors it started.
Destroy ==
  /\ ~server.destroyed
  /\ server' = ServerDestroy(server)
  /\ proc' = Fresh(proc)
  /\ prev' = proc
  /\ last' = Step("destroy", "", Undefined, Undefined, 0, FALSE, TRUE)
  /\ UNCHANGED <<nextId, history, parked, seen, route, fleetVars>>

\* A destroyed pubsub delivers no event; the event loop and the Task Runners
\* go on.
TeardownNext ==
  \/ ~server.destroyed /\ Start
  \/ /\ ~server.destroyed
     /\ \E s \in Range(Suffixes), e \in {"pause", "reset", "resume"} : Control(s, e)
  \/ /\ ~server.destroyed
     /\ \E s \in Range(Suffixes), e \in {"done", "run"} : Enqueue(s, e)
  \/ Immediate
  \/ \E t \in TaskIds, err \in BOOLEAN : Done(t, err)
  \/ Destroy

TeardownSpec == Init /\ [][TeardownNext]_vars

--------------------------------------------------------------------------
(* A Processor whose logger may throw *)

\* _stat and _text call logger().stat and logger().text in the handler, with
\* no try around the call: when the call throws, the statements of the
\* handler before it have run and the rest of the handler and of its callers
\* has not.
ThrowingPause(p) == [p EXCEPT !.queue.paused = TRUE]

ThrowingResume(p) ==
  IF p.queue.paused
  THEN [p EXCEPT !.queue.paused = FALSE, !.queue.scheduled = TRUE]
  ELSE p

ThrowingSetup(p) ==
  LET built == [p EXCEPT !.queue = NewQueue(p.cfg.concurrency)]
  IN IF p.cfg.paused = TRUE THEN ThrowingPause(built) ELSE ThrowingResume(built)

ThrowingRun(p, t) ==
  IF p.queue.paused = TRUE
  THEN p
  ELSE [p EXCEPT !.queue.tasks = Append(@, t), !.queue.scheduled = TRUE]

ThrowingHandle(p, event, t) ==
  CASE event = "done" -> ThrowingRun(p, t)
    [] event = "pause" -> ThrowingPause(p)
    [] event = "reset" -> ThrowingSetup(_clear(p))
    [] event = "resume" -> ThrowingResume(p)
    [] event = "run" -> ThrowingRun(p, t)
    [] OTHER -> p

ThrowingStart(p) ==
  ThrowingSetup(_subscribe(_subscribe(p, Path(p.cfg.name, Suffixes[1])),
                           Path(p.cfg.name, Suffixes[2])))

\* The queue's callback: q.error and q.drain are called before q.process(),
\* so a throw of either leaves q.process() out.
ThrowingCallback(p, t, err) ==
  IF p.queue # Null /\ t \in p.queue.workers
  THEN LET freed == [p EXCEPT !.queue.workers = @ \ {t}]
       IN IF err \/ Idle(freed.queue) THEN freed ELSE QueueProcess(freed)
  ELSE [p EXCEPT !.dead = @ \ {t}]

\* A step of the Processor whose logger may throw; ret tells whether the
\* handler returned.
SinkStep(op, name, task, err, returned) ==
  /\ prev' = proc
  /\ last' = Step(op, name, Undefined, Undefined, task, err, returned)
  /\ UNCHANGED <<history, sideVars, fleetVars>>

SinkStart(throws) ==
  /\ proc.subs = <<>>
  /\ proc' = IF throws THEN ThrowingStart(Fresh(proc)) ELSE start(Fresh(proc))
  /\ SinkStep("start", "", 0, FALSE, ~throws)
  /\ UNCHANGED nextId

\* The bus delivers an event of a subscribed topic; the logger can throw in
\* a handler that calls it.
SinkEvent(suffix, event, throws) ==
  /\ Path(proc.cfg.name, suffix) \in Range(proc.subs)
  /\ event \in {"done", "run"} => nextId <= MaxTasks
  /\ LET t == IF event \in {"done", "run"} THEN nextId ELSE 0
         returns == Emit(Fresh(proc), proc.subs, Path(proc.cfg.name, suffix), event, t)
     IN /\ throws => returns.out # <<>>
        /\ proc' = IF throws THEN ThrowingHandle(Fresh(proc), event, t) ELSE returns
        /\ SinkStep("event", event, t, FALSE, ~throws)
  /\ nextId' = IF event \in {"done", "run"} THEN nextId + 1 ELSE nextId

SinkImmediate ==
  /\ proc.queue # Null
  /\ proc.queue.scheduled
  /\ proc' = QueueProcess([Fresh(proc) EXCEPT !.queue.scheduled = FALSE])
  /\ SinkStep("immediate", "", 0, FALSE, TRUE)
  /\ UNCHANGED nextId

\* A Task Runner reports; the logger can throw in the error and in the drain
\* handler.
SinkDone(t, err, throws) ==
  /\ t \in proc.dead \cup (IF proc.queue = Null THEN {} ELSE proc.queue.workers)
  /\ throws => Callback(Fresh(proc), t, err).out # <<>>
  /\ proc' = IF throws THEN ThrowingCallback(Fresh(proc), t, err)
                        ELSE Callback(Fresh(proc), t, err)
  /\ SinkStep("done", "", t, err, ~throws)
  /\ UNCHANGED nextId

SinkNext ==
  \/ \E throws \in BOOLEAN : SinkStart(throws)
  \/ \E s \in Range(Suffixes), e \in {"pause", "reset", "resume", "done", "run"},
        throws \in BOOLEAN : SinkEvent(s, e, throws)
  \/ SinkImmediate
  \/ \E t \in TaskIds, err \in BOOLEAN, throws \in BOOLEAN : SinkDone(t, err, throws)

SinkSpec == Init /\ [][SinkNext]_vars

--------------------------------------------------------------------------
(* A Server that registers Processors and starts them *)

nonRoute ==
  <<fleet, sent, flast, proc, nextId, prev, last, invoked, admitted, refused,
    abandoned, held, parked, seen>>

nonServer ==
  <<fleet, sent, flast, proc, nextId, prev, last, invoked, admitted, refused,
    abandoned, held, parked, seen, route>>

\* The Processors of the Server with what the others emitted and ran in
\* their last handler forgotten.
Quiet(i) ==
  [j \in 1..Len(server.processors) |->
     IF j = i THEN server.processors[j] ELSE Fresh(server.processors[j])]

SrvPubsub ==
  /\ server.pubsub = "none"
  /\ server.id = NoId
  /\ server' = ServerPubsub(server)
  /\ UNCHANGED nonServer

\* The n-th Processor registered has the n-th partition name.
SrvProcessor(paused) ==
  /\ Len(server.processors) < MaxProcessors
  /\ server' = ServerProcessor(
                  [server EXCEPT !.processors = Quiet(0)],
                  [name |-> IF server.processors = <<>> THEN OwnName ELSE OtherName,
                   paused |-> paused, concurrency |-> Concurrency])
  /\ UNCHANGED nonServer

SrvStart ==
  /\ server.id = NoId
  /\ server' = ServerStart(server)
  /\ UNCHANGED nonServer

\* The bus delivers an event to a Processor that was started.
SrvEvent(i, event) ==
  /\ i \in 1..Len(server.processors)
  /\ server.processors[i].subs # <<>>
  /\ event = "run" => server.items < MaxServerItems
  /\ LET p == server.processors[i]
         t == IF event = "run" THEN server.items + 1 ELSE 0
     IN server' = [server EXCEPT
          !.processors = [Quiet(i) EXCEPT ![i] =
             Emit(Fresh(p), p.subs, Path(p.cfg.name, Suffixes[1]), event, t)],
          !.items = IF event = "run" THEN @ + 1 ELSE @]
  /\ UNCHANGED nonServer

SrvImmediate(i) ==
  /\ i \in 1..Len(server.processors)
  /\ server.processors[i].queue # Null
  /\ server.processors[i].queue.scheduled
  /\ server' = [server EXCEPT !.processors = [Quiet(i) EXCEPT ![i] =
       QueueProcess([Fresh(server.processors[i]) EXCEPT !.queue.scheduled = FALSE])]]
  /\ UNCHANGED nonServer

SrvDone(i, t, err) ==
  /\ i \in 1..Len(server.processors)
  /\ LET p == server.processors[i]
     IN /\ t \in p.dead \cup (IF p.queue = Null THEN {} ELSE p.queue.workers)
        /\ server' = [server EXCEPT !.processors =
                        [Quiet(i) EXCEPT ![i] = Callback(Fresh(p), t, err)]]
  /\ UNCHANGED nonServer

ServerNext ==
  \/ SrvPubsub
  \/ \E paused \in BOOLEAN : SrvProcessor(paused)
  \/ SrvStart
  \/ \E i \in 1..MaxProcessors, e \in {"pause", "resume", "run"} :
       SrvEvent(i, e)
  \/ \E i \in 1..MaxProcessors : SrvImmediate(i)
  \/ \E i \in 1..MaxProcessors, t \in 1..MaxServerItems, err \in BOOLEAN :
       SrvDone(i, t, err)

ServerSpec == Init /\ [][ServerNext]_vars

--------------------------------------------------------------------------
(* A Server that is configured and destroyed *)

SrvConfigure(part) ==
  /\ ~server.destroyed
  /\ server[part] = "none"
  /\ server' = ServerConfigure(server, part)
  /\ UNCHANGED nonServer

SrvHttp ==
  /\ ~server.destroyed
  /\ server' = ServerHttp(server)
  /\ server' # server
  /\ UNCHANGED nonServer

SrvWs ==
  /\ ~server.destroyed
  /\ server.wsServer = "none"
  /\ server' = ServerWs(server)
  /\ UNCHANGED nonServer

\* destroy() is called once.
SrvDestroy ==
  /\ ~server.destroyed
  /\ server' = ServerDestroy(server)
  /\ UNCHANGED nonServer

SrvWsClosed ==
  /\ server.wsServer = "closing"
  /\ server' = WsServerClosed(server)
  /\ UNCHANGED nonServer

SrvHttpClosed ==
  /\ server.httpServer = "closing"
  /\ server' = HttpServerClosed(server)
  /\ UNCHANGED nonServer

DestroyNext ==
  \/ \E part \in {"auth", "cache", "database"} : SrvConfigure(part)
  \/ SrvPubsub
  \/ SrvHttp
  \/ SrvWs
  \/ SrvDestroy
  \/ SrvWsClosed
  \/ SrvHttpClosed

DestroySpec == Init /\ [][DestroyNext]_vars

--------------------------------------------------------------------------
(* A Route that is built and opened *)

\* How many builder calls a Route gets, and how many times it is opened.
MaxBuilderCalls == 3
MaxRoutes == 1

Builders ==
  {"allow", "authorize", "cache", "publish", "respond", "subscribe",
   "validate"}

\* A builder method is called; the value it is given is numbered after the
\* call.
RtBuild(name) ==
  /\ Len(route.calls) < MaxBuilderCalls
  /\ route' = Build(route, name, Len(route.calls) + 1)
  /\ UNCHANGED <<server, nonRoute>>

RtMode(value, invert) ==
  /\ Len(route.calls) < MaxBuilderCalls
  /\ route' = RouteMode(route, value, invert)
  /\ UNCHANGED <<server, nonRoute>>

RtMethod(method) ==
  /\ Len(server.router) < MaxRoutes
  /\ route' = RouteMethod(route, method)
  /\ server' = _open(server, route')
  /\ UNCHANGED nonRoute

RouteNext ==
  \/ \E name \in Builders : RtBuild(name)
  \/ \E value \in {"object", "list"}, invert \in {"false", "true"} :
       RtMode(value, invert)
  \/ \E method \in Methods : RtMethod(method)

\* The Server has no Processor that acts: the one of Init stays as it was
\* constructed.
RouteInit == Init /\ ~proc.cfg.paused

RouteSpec == RouteInit /\ [][RouteNext]_vars

--------------------------------------------------------------------------
(* A Processor that is configured running and receives run messages only *)

\* How many run messages the Processor receives.
ScenarioTasks == 5

\* The observations handler output p.out adds to those seen; early counts
\* the run = 0 observations emitted before the last run message came.
Tally(p, allIn) ==
  LET drains == Count(p.out, [sink |-> "stat", record |-> _compose(p, "run", 0)])
  IN [paused0 |-> seen.paused0 +
                    Count(p.out, [sink |-> "stat",
                                  record |-> _compose(p, "paused", 0)]),
      drain |-> seen.drain + drains,
      early |-> seen.early + (IF allIn THEN 0 ELSE drains)]

ScenarioStep(name, task, err) ==
  /\ prev' = proc
  /\ last' = Step(name, IF name = "event" THEN "run" ELSE "", Undefined,
                  Undefined, task, err, TRUE)
  /\ seen' = Tally(proc', nextId > ScenarioTasks)
  /\ UNCHANGED <<history, parked, server, route, fleetVars>>

\* Server.start() starts the Processor.
ScenarioStart ==
  /\ proc.subs = <<>>
  /\ proc' = start(Fresh(proc))
  /\ ScenarioStep("start", 0, FALSE)
  /\ UNCHANGED nextId

\* The bus delivers a run event of a subscribed topic.
ScenarioRun(suffix) ==
  /\ Path(proc.cfg.name, suffix) \in Range(proc.subs)
  /\ nextId <= ScenarioTasks
  /\ proc' = Emit(Fresh(proc), proc.subs, Path(proc.cfg.name, suffix), "run", nextId)
  /\ nextId' = nextId + 1
  /\ ScenarioStep("event", nextId, FALSE)

\* The event loop runs the q.process that push scheduled.
ScenarioImmediate ==
  /\ proc.queue # Null
  /\ proc.queue.scheduled
  /\ proc' = QueueProcess([Fresh(proc) EXCEPT !.queue.scheduled = FALSE])
  /\ ScenarioStep("immediate", 0, FALSE)
  /\ UNCHANGED nextId

\* A Task Runner reports completion or failure.
ScenarioDone(t, err) ==
  /\ proc.queue # Null
  /\ t \in proc.queue.workers
  /\ proc' = Callback(Fresh(proc), t, err)
  /\ ScenarioStep("done", t, err)
  /\ UNCHANGED nextId

ScenarioInit == Init /\ proc.cfg.paused = FALSE

ScenarioNext ==
  \/ ScenarioStart
  \/ \E s \in Range(Suffixes) : ScenarioRun(s)
  \/ ScenarioImmediate
  \/ \E t \in 1..ScenarioTasks, err \in BOOLEAN : ScenarioDone(t, err)

ScenarioSpec == ScenarioInit /\ [][ScenarioNext]_vars

--------------------------------------------------------------------------
(* A fleet of message-filtering Processors on one bus *)

\* What the hosts other than i keep of a step of host i: everything but the
\* record of what their last handler emitted and ran.
Others(i) == [j \in Insts |-> IF j = i THEN fleet[j] ELSE Fresh(fleet[j])]

\* A publisher puts a message on the path every host subscribes to and the
\* bus hands it to the _publish of each host.  The hosts share no state, so
\* the order in which they receive it shows in none of them: the deliveries
\* are one step.
FleetPublish(action, si, pn) ==
  /\ sent < MaxFleetMsgs
  /\ LET data == Message(action, si, pn, sent + 1)
         r == [i \in Insts |-> _publish(Fresh(fleet[i]), data)]
     IN /\ fleet' = [i \in Insts |-> r[i].proc]
        /\ flast' = [data |-> data, ret |-> [i \in Insts |-> r[i].ret],
                     before |-> fleet]
  /\ sent' = sent + 1
  /\ UNCHANGED procVars

\* The event loop of host i runs the q.process that was scheduled.
FleetImmediate(i) ==
  /\ fleet[i].queue.scheduled
  /\ fleet' = [Others(i) EXCEPT ![i] =
                 QueueProcess([Fresh(fleet[i]) EXCEPT !.queue.scheduled = FALSE])]
  /\ flast' = NoDelivery(fleet')
  /\ UNCHANGED <<sent, procVars>>

\* A Task Runner of host i reports completion or failure.
FleetDone(i, t, err) ==
  /\ t \in fleet[i].dead \cup fleet[i].queue.workers
  /\ fleet' = [Others(i) EXCEPT ![i] = Callback(Fresh(fleet[i]), t, err)]
  /\ flast' = NoDelivery(fleet')
  /\ UNCHANGED <<sent, procVars>>

\* The fleet, every host started and running.
FleetInit ==
  /\ fleet = [i \in Insts |-> startFilter(Member(i))]
  /\ sent = 0
  /\ flast = NoDelivery(fleet)
  /\ proc = Construct([name |-> OwnName, paused |-> FALSE,
                       concurrency |-> Concurrency], OwnId)
  /\ nextId = 1
  /\ prev = proc
  /\ last = Step("new", "", Undefined, Undefined, 0, FALSE, TRUE)
  /\ invoked = [t \in TaskIds |-> 0]
  /\ admitted = {}
  /\ refused = {}
  /\ abandoned = {}
  /\ held = {}
  /\ parked = {}
  /\ seen = NoneSeen
  /\ server = NewServer
  /\ route = NewRoute

FleetTargets == {Undefined} \cup {Hosts[i].id : i \in Insts}

FleetNext ==
  \/ \E a \in Actions \ {"noop"}, si \in FleetTargets, pn \in Partitions :
       FleetPublish(a, si, pn)
  \/ \E i \in Insts : FleetImmediate(i)
  \/ \E i \in Insts, t \in 1..MaxFleetMsgs, err \in BOOLEAN : FleetDone(i, t, err)

FleetSpec == FleetInit /\ [][FleetNext]_vars

--------------------------------------------------------------------------
(* Properties *)

Published == last.op = "publish"
Delivered == flast.data.action # "noop"

\* What a handler leaves alone when it does nothing.
Untouched ==
  /\ proc.queue = prev.queue
  /\ proc.dead = prev.dead
  /\ proc.subs = prev.subs
  /\ proc.out = <<>>
  /\ proc.ran = <<>>

\* C1: a message that names another instance in si and carries no pn is
\* dropped whatever its action: _publish returns false, the queue (pause
\* flag, backlog, items in flight) is the one it was, no queue is killed or
\* built and nothing is handed to the logger.
C1_ForeignInstanceDropped ==
  (Published /\ last.si # Undefined /\ last.si # proc.id /\ last.pn = Undefined)
    => (last.ret = FALSE /\ Untouched)

\* A reset for another instance reaches a queue with one item in flight and
\* one pending.
C1_Witness ==
  /\ Published /\ last.name = "reset"
  /\ last.si = OtherId /\ last.pn = Undefined
  /\ proc.queue.workers # {} /\ proc.queue.tasks # <<>>

\* The acceptance rule as the specification words it.
SpecAccepts(p, si, pn) ==
  \/ si = Undefined /\ pn = Undefined
  \/ si # Undefined /\ si = p.id
  \/ pn # Undefined /\ pn = p.cfg.name

\* The acceptance rule with si deciding alone when it is present.
InstanceFirstAccepts(p, si, pn) ==
  \/ si # Undefined /\ si = p.id
  \/ si = Undefined /\ pn # Undefined /\ pn = p.cfg.name
  \/ si = Undefined /\ pn = Undefined

\* What an accepted message does to the pause flag.
Applied ==
  /\ last.name = "pause" => proc.queue.paused
  /\ last.name = "resume" => ~proc.queue.paused
  /\ last.name = "reset" => proc.queue.paused = proc.cfg.paused
  /\ (last.name = "run" /\ ~prev.queue.paused) =>
       proc.queue.tasks = Append(prev.queue.tasks, last.task)
  /\ last.name \in {"pause", "resume", "reset"} => proc.out # <<>>

\* C2 as stated: a message is accepted if and only if (si and pn absent) or
\* (si present and equal to the own identity) or (pn present and equal to
\* the own partition name); in particular a message whose pn is the own
\* partition name is accepted whatever its si.
C2_AcceptedIffAnyTargetMatches ==
  Published =>
    /\ last.ret = SpecAccepts(proc, last.si, last.pn)
    /\ last.ret => Applied

\* C2 amended: a message is accepted if and only if (si present and equal
\* to the own identity) or (si absent, pn present and equal to the own
\* partition name) or (si and pn absent); an accepted message has its action
\* applied, a message that is not accepted changes nothing.
C2_AcceptedIffInstanceFirst ==
  Published =>
    /\ last.ret = InstanceFirstAccepts(proc, last.si, last.pn)
    /\ last.ret => Applied
    /\ ~last.ret => Untouched

\* A pause for the own partition and another instance leaves a running
\* queue running.
C2_Witness ==
  /\ Published /\ last.name = "pause"
  /\ last.si = OtherId /\ last.pn = OwnName
  /\ ~last.ret /\ ~proc.queue.paused

\* Whether the message names the host, by si alone, by pn alone or by
\* neither.
Broadcast(d) == d.si = Undefined /\ d.pn = Undefined
OnlyInstance(d) == d.si # Undefined /\ d.pn = Undefined
OnlyPartition(d) == d.si = Undefined /\ d.pn # Undefined
ForAnother(d, i) ==
  /\ ~Broadcast(d)
  /\ d.si # Undefined => d.si # Hosts[i].id
  /\ d.pn # Undefined => d.pn # Hosts[i].name

\* C3: of the hosts that receive one message, all act on a message with
\* neither si nor pn, exactly those whose identity is X act on a message
\* with si = X alone, exactly those whose partition name is P act on a
\* message with pn = P alone: a run for a partition is pushed on the running
\* queues of that partition and on no queue of another.  A message for
\* another instance or partition leaves a host's queue as it was.
C3_FleetAddressing ==
  Delivered => \A i \in Insts :
    LET d == flast.data
        before == flast.before[i]
        after == fleet[i]
    IN /\ Broadcast(d) => flast.ret[i]
       /\ OnlyInstance(d) => (flast.ret[i] <=> d.si = Hosts[i].id)
       /\ OnlyPartition(d) => (flast.ret[i] <=> d.pn = Hosts[i].name)
       /\ (OnlyPartition(d) /\ d.action = "run") =>
            IF d.pn = Hosts[i].name /\ ~before.queue.paused
            THEN after.queue.tasks = Append(before.queue.tasks, d.task)
            ELSE after.queue.tasks = before.queue.tasks
       /\ ForAnother(d, i) =>
            /\ ~flast.ret[i]
            /\ after.queue = before.queue
            /\ after.dead = before.dead
            /\ after.out = <<>>

\* A run for partition p1 is pushed on both hosts of p1 and not on the host
\* of p2.
C3_Witness ==
  /\ Delivered /\ flast.data.action = "run"
  /\ flast.data.si = Undefined /\ flast.data.pn = OwnName
  /\ \A i \in Insts :
       (Hosts[i].name = OwnName) <=>
         (fleet[i].queue.tasks # <<>> /\ fleet[i].queue.tasks # flast.before[i].queue.tasks)
  /\ \E i, j \in Insts : Hosts[i].name = OwnName /\ Hosts[j].name # OwnName

\* C4: the items of the current queue that were handed to the Task Runner
\* and have not been called back never outnumber the configured
\* concurrency.
C4_BoundedConcurrency ==
  Cardinality(proc.queue.workers) <= proc.cfg.concurrency

\* Every worker is busy and an item waits.
C4_Witness ==
  /\ Cardinality(proc.queue.workers) = proc.cfg.concurrency
  /\ proc.queue.tasks # <<>>

Observation(sink, name, value) ==
  [sink |-> sink,
   record |-> [metric |-> <<proc.cfg.name, name>>, id |-> proc.id,
               reserved |-> 0, value |-> value]]

Event(names) == last.op = "event" /\ last.name \in names

\* C5: without a reset, no item is handed to the Task Runner twice, none
\* that was not admitted is handed to it, and if the queue is in the end not
\* paused any more every admitted item is handed to it: K admitted items are
\* K invocations.
C5_EachAdmittedRunsOnce ==
  /\ [](\A t \in TaskIds : invoked[t] <= 1 /\ (invoked[t] = 1 => t \in admitted))
  /\ (<>[](~proc.queue.paused)) =>
       (\A t \in TaskIds : [](t \in admitted => <>(invoked[t] = 1)))

\* More items than workers were admitted, each was run once and the queue
\* is idle.
C5_Witness ==
  /\ admitted = TaskIds
  /\ Cardinality(admitted) > proc.cfg.concurrency
  /\ \A t \in TaskIds : invoked[t] = 1
  /\ proc.queue.live /\ Idle(proc.queue)

\* C6: an item whose run or done message is the first thing after a pause
\* is not handed to the Task Runner as long as no resume has come.
C6_HeldUntilResume ==
  \A t \in held : invoked[t] = 0 /\ t \notin proc.queue.workers

\* The dispatch loop ran with such an item held back and another pending.
C6_Witness ==
  /\ held # {}
  /\ last.op = "immediate"
  /\ proc.queue.tasks # <<>>

\* C7: a run or done message that finds the queue paused is dropped: the
\* queue is unchanged, nothing is emitted, and the item is never admitted nor
\* handed to the Task Runner, also after a resume.
C7_RefusedWhilePaused ==
  /\ \A t \in refused :
       invoked[t] = 0 /\ t \notin admitted /\ t \notin Range(proc.queue.tasks)
  /\ (Event({"run", "done"}) /\ prev.queue.paused) => Untouched

\* After a refusal and a resume the queue dispatches a later item.
C7_Witness ==
  /\ refused # {}
  /\ ~proc.queue.paused
  /\ last.op = "immediate" /\ proc.ran # <<>>

\* C8: after a reset the queue has the pause flag of the configuration and
\* the handler has emitted the one paused observation that goes with it.
C8_ResetRestoresConfiguredPause ==
  Event({"reset"}) =>
    /\ proc.queue.paused = proc.cfg.paused
    /\ proc.out = <<Observation("stat", "paused",
                                 IF proc.cfg.paused THEN 1 ELSE 0)>>

\* A reset finds the queue in the other pause state.
C8_Witness ==
  /\ Event({"reset"})
  /\ prev.queue.live
  /\ prev.queue.paused # proc.cfg.paused

\* The new queue of a reset, and the fate of the items pending in the old
\* one.
ResetRebuilds ==
  /\ \A t \in abandoned : invoked[t] = 0 /\ t \notin Range(proc.queue.tasks)
  /\ Event({"reset"}) =>
       /\ proc.queue.tasks = <<>> /\ proc.queue.workers = {}
       /\ proc.queue.concurrency = proc.cfg.concurrency
       /\ proc.dead = prev.dead \cup prev.queue.workers

OfKilledQueue == last.op = "done" /\ last.task \in prev.dead

\* C9 as stated: a reset leaves a new empty queue of the configured
\* concurrency, the items pending in the old queue are never run, and the
\* completion or failure of an item in flight in the old queue emits
\* nothing (no run = 0, no error text) and starts no item of the new queue.
C9_KilledQueueIsSilent ==
  /\ ResetRebuilds
  /\ OfKilledQueue =>
       /\ proc.out = <<>>
       /\ proc.ran = <<>>
       /\ proc.queue = prev.queue

\* C9 amended: as stated, except that the failure of an item in flight in
\* the old queue still emits one error text observation (its completion
\* emits nothing); neither emits run = 0 nor starts an item of the new queue.
C9_KilledQueueReportsFailureOnly ==
  /\ ResetRebuilds
  /\ OfKilledQueue =>
       /\ proc.out = IF last.err THEN <<Observation("text", "error", ErrorMessage(last.task))>>
                     ELSE <<>>
       /\ proc.ran = <<>>
       /\ proc.queue = prev.queue

\* An item of a killed queue fails while the new queue has an item pending
\* and a free worker.
C9_Witness ==
  /\ OfKilledQueue /\ last.err
  /\ proc.queue.tasks # <<>>
  /\ Cardinality(proc.queue.workers) < proc.queue.concurrency
  /\ abandoned # {}

\* C10: an item is handed to the Task Runner only by a queue that is not
\* paused; a pause leaves the backlog and the items in flight as they are,
\* and an item in flight in a paused queue completes as in a running one.
C10_NoDispatchWhilePaused ==
  /\ proc.ran # <<>> => (~prev.queue.paused /\ ~proc.queue.paused)
  /\ Event({"pause"}) =>
       /\ proc.queue.workers = prev.queue.workers
       /\ proc.queue.tasks = prev.queue.tasks
       /\ proc.dead = prev.dead
  /\ (last.op = "done" /\ prev.queue.paused /\ last.task \in prev.queue.workers) =>
       /\ proc.queue.workers = prev.queue.workers \ {last.task}
       /\ proc.queue.tasks = prev.queue.tasks
       /\ proc.queue.paused

\* An item completes in a paused queue that has a pending item and a free
\* worker.
C10_Witness ==
  /\ last.op = "done" /\ last.task \in prev.queue.workers
  /\ proc.queue.paused
  /\ proc.queue.tasks # <<>>
  /\ Cardinality(proc.queue.workers) < proc.queue.concurrency

\* The backlog in the order of admission, handed over from its head.
FirstInFirstOut ==
  /\ \A i, j \in 1..Len(proc.queue.tasks) :
       i < j => proc.queue.tasks[i] < proc.queue.tasks[j]
  /\ \A t \in Range(proc.queue.tasks), u \in TaskIds : invoked[u] > 0 => u < t
  /\ proc.ran = SubSeq(prev.queue.tasks, 1, Len(proc.ran))
  /\ proc.ran # <<>> =>
       proc.queue.tasks =
         SubSeq(prev.queue.tasks, Len(proc.ran) + 1, Len(prev.queue.tasks))

\* C11: without a reset, the items that are pending when a pause comes stay
\* in the backlog as long as the queue is paused (no step of a paused queue
\* changes its backlog, no such item is lost), the backlog is handed to the
\* Task Runner from its head in the order of admission, and if the queue is
\* in the end not paused any more every such item has in the end been handed
\* to it.
C11_ParkedThenFifo ==
  /\ [](/\ \A t \in parked : invoked[t] = 0 => t \in Range(proc.queue.tasks)
        /\ prev.queue.paused => proc.queue.tasks = prev.queue.tasks
        /\ FirstInFirstOut)
  /\ (<>[](~proc.queue.paused)) => <>[](\A t \in parked : invoked[t] = 1)

\* After a pause and a resume the dispatch loop hands two items that were
\* pending during the pause to the Task Runner, the earlier one first.
C11_Witness ==
  /\ last.op = "immediate"
  /\ Len(proc.ran) = 2
  /\ Range(proc.ran) \subseteq parked
  /\ proc.ran[1] < proc.ran[2]

\* C12: every pause emits exactly one paused = 1 observation and leaves the
\* queue paused, every resume emits exactly one paused = 0 observation and
\* leaves it running, also when the queue is in that state already; a pause
\* of a paused queue and a resume of a running queue leave the queue (pause
\* flag, backlog, items in flight, what is scheduled) as it was and hand
\* nothing to the Task Runner.
C12_OneObservationPerPauseAndResume ==
  /\ Event({"pause"}) =>
       /\ proc.out = <<Observation("stat", "paused", 1)>>
       /\ proc.queue.paused
  /\ Event({"resume"}) =>
       /\ proc.out = <<Observation("stat", "paused", 0)>>
       /\ ~proc.queue.paused
  /\ (\/ Event({"pause"}) /\ prev.queue.paused
      \/ Event({"resume"}) /\ ~prev.queue.paused) =>
       /\ proc.queue = prev.queue
       /\ proc.dead = prev.dead
       /\ proc.ran = <<>>

\* A resume reaches a running queue with an item in flight and one pending.
C12_Witness ==
  /\ Event({"resume"}) /\ ~prev.queue.paused
  /\ prev.queue.workers # {} /\ prev.queue.tasks # <<>>
  /\ Len(proc.out) = 1

\* The last item in flight of the current queue reports and the backlog is
\* empty.
DrainDue ==
  /\ last.op = "done"
  /\ prev.queue.workers = {last.task}
  /\ prev.queue.tasks = <<>>

\* What a pause, a resume, a reset and a drain emit.
MutationsObserved ==
  /\ Event({"pause"}) => Observation("stat", "paused", 1) \in Range(proc.out)
  /\ Event({"resume"}) => Observation("stat", "paused", 0) \in Range(proc.out)
  /\ Event({"reset"}) =>
       Observation("stat", "paused", IF proc.cfg.paused THEN 1 ELSE 0)
         \in Range(proc.out)
  /\ DrainDue => Observation("stat", "run", 0) \in Range(proc.out)

\* C13 as stated: every pause, resume and reset and every drain emits an
\* observation, and every step that hands an item to the Task Runner emits
\* a stat observation for that start.
C13_EveryStartObserved ==
  /\ MutationsObserved
  /\ proc.ran # <<>> =>
       \E i \in 1..Len(proc.out) :
         proc.out[i].sink = "stat" /\ proc.out[i].record.value = 1

\* C13 amended: every pause, resume and reset and every drain emits an
\* observation, and every admission of an item emits exactly one task = 1
\* observation, in the handler that appends it to the backlog; the step that
\* hands an item to the Task Runner emits nothing for that start (the
\* dispatch loop emits nothing, a report emits only the error text of a
\* failure and the run = 0 of a drain).
C13_EveryAdmissionObserved ==
  /\ MutationsObserved
  /\ (Event({"run", "done"}) /\ ~prev.queue.paused) =>
       /\ proc.out = <<Observation("stat", "task", 1)>>
       /\ proc.ran = <<>>
  /\ last.op = "immediate" => proc.out = <<>>
  /\ last.op = "done" =>
       Range(proc.out) \subseteq {Observation("text", "error", ErrorMessage(last.task)),
                                  Observation("stat", "run", 0)}

\* The dispatch loop hands two items to the Task Runner and nothing is
\* emitted.
C13_Witness ==
  /\ last.op = "immediate"
  /\ Len(proc.ran) = 2
  /\ proc.out = <<>>

\* Every run message has come, every item was run and has reported.
AllDone ==
  /\ nextId > ScenarioTasks
  /\ proc.queue.live /\ Idle(proc.queue)

\* C14 as stated: a Processor configured running that is started and
\* receives its run messages and no pause, resume or reset has emitted
\* exactly one paused = 0 observation, at start, and emits run = 0 once,
\* when the last of the items has reported and nothing is pending, and not
\* before.
C14_OneDrainAfterLastTask ==
  /\ last.op # "new" => seen.paused0 = 1
  /\ seen.drain = IF AllDone THEN 1 ELSE 0

\* C14 amended: such a Processor has emitted exactly one paused = 0
\* observation, at start; run = 0 is emitted by a report that leaves the
\* queue idle and by nothing else, so it is emitted once, when the last item
\* has reported, and not before, if every run message came before the queue
\* first fell idle, and once more for every time the queue fell idle before
\* the last run message came.
C14_OneDrainPerIdleQueue ==
  /\ last.op # "new" => seen.paused0 = 1
  /\ last.op # "start" =>
       Observation("stat", "paused", 0) \notin Range(proc.out)
  /\ Observation("stat", "run", 0) \in Range(proc.out) =>
       (last.op = "done" /\ Idle(proc.queue))
  /\ seen.drain = seen.early + (IF AllDone THEN 1 ELSE 0)

\* All the run messages came while an item was in flight, the last item
\* has reported and run = 0 was emitted once, by that report.
C14_Witness ==
  /\ AllDone
  /\ last.op = "done"
  /\ seen.early = 0 /\ seen.drain = 1
  /\ proc.out = <<Observation("stat", "run", 0)>>

\* C15: run = 0 is emitted exactly by the report of an item of the current
\* queue that leaves that queue with an empty backlog and no item in flight,
\* once per such report; it is never emitted by a step that leaves an item
\* of the current queue pending or in flight.
C15_DrainExactlyOnIdle ==
  /\ Count(proc.out, Observation("stat", "run", 0)) = IF DrainDue THEN 1 ELSE 0
  /\ Observation("stat", "run", 0) \in Range(proc.out) =>
       /\ proc.queue.live
       /\ proc.queue.tasks = <<>>
       /\ proc.queue.workers = {}

\* The last item of the current queue reports while an item of a killed
\* queue is still in flight, and run = 0 is emitted.
C15_Witness ==
  /\ DrainDue
  /\ proc.dead # {}
  /\ Observation("stat", "run", 0) \in Range(proc.out)

\* C16: the failure of a Task Runner emits exactly one text observation,
\* named error and carrying the message of that failure, and does not stop
\* the queue: the pause flag is as it was, the other items in flight stay in
\* flight, and if the item was of the current queue, which is running and
\* has a backlog, the report hands the head of the backlog to the Task
\* Runner.
C16_FailureReportedQueueContinues ==
  (last.op = "done" /\ last.err) =>
    /\ Count(proc.out, Observation("text", "error", ErrorMessage(last.task))) = 1
    /\ \A i \in 1..Len(proc.out) :
         proc.out[i].sink = "text" =>
           proc.out[i] = Observation("text", "error", ErrorMessage(last.task))
    /\ proc.queue.paused = prev.queue.paused
    /\ prev.queue.workers \ {last.task} \subseteq proc.queue.workers
    /\ proc.dead = prev.dead \ {last.task}
    /\ (/\ last.task \in prev.queue.workers
        /\ ~prev.queue.paused
        /\ prev.queue.tasks # <<>>) =>
         /\ proc.ran # <<>>
         /\ proc.ran = SubSeq(prev.queue.tasks, 1, Len(proc.ran))
         /\ proc.queue.tasks =
              SubSeq(prev.queue.tasks, Len(proc.ran) + 1, Len(prev.queue.tasks))

\* One of two items in flight fails, the other stays in flight and the
\* pending item is handed to the Task Runner.
C16_Witness ==
  /\ last.op = "done" /\ last.err
  /\ prev.queue.workers \ {last.task} # {}
  /\ proc.ran # <<>>
  /\ Cardinality(proc.queue.workers) = proc.queue.concurrency

\* C17: only start() subscribes: from start on the Processor holds one
\* subscription per topic, whatever resets it has handled, so the handler of
\* a delivered event runs exactly once (one observation per pause, resume
\* and reset, one item appended and one observation per admitted run or
\* done).
C17_SubscriptionsFixedByStart ==
  /\ proc.subs # prev.subs => last.op = "start"
  /\ last.op # "new" =>
       proc.subs = <<Path(proc.cfg.name, "proc"), Path(proc.cfg.name, "task")>>
  /\ Event({"pause", "resume", "reset"}) => Len(proc.out) = 1
  /\ (Event({"run", "done"}) /\ ~prev.queue.paused) =>
       /\ proc.queue.tasks = Append(prev.queue.tasks, last.task)
       /\ Len(proc.out) = 1

\* A run message is admitted once by a Processor that handled a reset
\* which killed a backlog and left an item in flight.
C17_Witness ==
  /\ Event({"run"}) /\ ~prev.queue.paused
  /\ abandoned # {} /\ proc.dead # {}
  /\ Count(proc.queue.tasks, last.task) = 1

\* C18 as stated: once the Server is torn down the Processor's queue is
\* destroyed (no live queue, nothing pending), no event changes the
\* Processor any more and no pending item is handed to the Task Runner.
C18_TeardownStopsProcessor ==
  server.destroyed =>
    /\ ~proc.queue.live
    /\ proc.ran = <<>>
    /\ last.op # "event"

\* What the last event would have left had it come as event e on the
\* topic of suffix s.
Delivery(s, e) ==
  Emit(Fresh(prev), prev.subs, Path(prev.cfg.name, s), e, last.task)

\* C19: start() leaves one subscription per topic (proc and task) and a
\* new empty queue of the configured concurrency in the configured pause
\* state, with the paused observation of that state emitted; on each of the
\* topics a pause pauses, a resume resumes, a reset rebuilds the queue and a
\* run or a done appends its item to the backlog of a running queue; a run
\* and a done with the same payload leave the same Processor.
C19_StartSubscribesAndBuilds ==
  /\ last.op = "start" =>
       /\ proc.subs = <<Path(proc.cfg.name, "proc"), Path(proc.cfg.name, "task")>>
       /\ proc.queue = [NewQueue(proc.cfg.concurrency) EXCEPT
                         !.paused = proc.cfg.paused]
       /\ proc.out = <<Observation("stat", "paused",
                                   IF proc.cfg.paused THEN 1 ELSE 0)>>
  /\ Event({"pause"}) => proc.queue.paused
  /\ Event({"resume"}) => ~proc.queue.paused
  /\ Event({"reset"}) =>
       (proc.queue.tasks = <<>> /\ proc.queue.paused = proc.cfg.paused)
  /\ (Event({"run", "done"}) /\ ~prev.queue.paused) =>
       proc.queue.tasks = Append(prev.queue.tasks, last.task)
  /\ last.op = "event" => \A s \in Range(Suffixes) : proc = Delivery(s, last.name)
  /\ Event({"run", "done"}) =>
       \A s \in Range(Suffixes), e \in {"run", "done"} : proc = Delivery(s, e)

\* A done message is admitted by a running queue that has an item in
\* flight.
C19_Witness ==
  /\ Event({"done"}) /\ ~prev.queue.paused
  /\ prev.queue.workers # {}
  /\ last.task \in Range(proc.queue.tasks)

\* What the last step leaves when the logger does not throw.
Returned ==
  CASE last.op = "start" -> start(Fresh(prev))
    [] last.op = "event" ->
         Emit(Fresh(prev), prev.subs, Path(prev.cfg.name, "proc"), last.name,
              last.task)
    [] last.op = "done" -> Callback(Fresh(prev), last.task, last.err)
    [] OTHER -> proc

\* C20 as stated: a handler in which the logger throws leaves the queue
\* (pause flag, backlog, items in flight, what is scheduled), the items of
\* killed queues and what is handed to the Task Runner as the handler in
\* which it does not throw.
C20_SinkFailureHarmless ==
  ~last.ret =>
    /\ proc.queue = Returned.queue
    /\ proc.dead = Returned.dead
    /\ proc.ran = Returned.ran

\* C21: the pause flag of the queue differs from the one before the step
\* only after start and after the handlers of pause, resume and reset: the
\* admission of an item, the dispatch loop, a completion, a failure and a
\* drain leave it as it was.
C21_PauseFlagFrame ==
  /\ proc.queue.paused # prev.queue.paused =>
       (last.op = "start" \/ Event({"pause", "resume", "reset"}))
  /\ (last.op \in {"immediate", "done"} \/ Event({"run", "done"})) =>
       proc.queue.paused = prev.queue.paused

\* The last item in flight of a paused queue fails and the queue drains,
\* still paused.
C21_Witness ==
  /\ DrainDue /\ last.err
  /\ prev.queue.paused /\ proc.queue.paused
  /\ Observation("stat", "run", 0) \in Range(proc.out)

\* C22: a message that _publish accepts and whose action is absent or none
\* of pause, resume, reset and run leaves the queue (pause flag, backlog,
\* items in flight), the killed queues' items and the subscriptions as they
\* were, hands nothing to the Task Runner and emits nothing.
C22_UnknownActionIgnored ==
  (Published /\ last.ret /\ last.name \notin {"pause", "resume", "reset", "run"})
    => Untouched

\* A message without action, addressed to the own instance, reaches a
\* running queue with an item in flight and one pending.
C22_Witness ==
  /\ Published /\ last.ret
  /\ last.name = Undefined /\ last.si = OwnId
  /\ ~proc.queue.paused
  /\ proc.queue.workers # {} /\ proc.queue.tasks # <<>>

\* C23 as stated: the items handed to the Task Runner that have not
\* reported, those of queues a reset has killed included, never outnumber
\* the configured concurrency.
C23_BoundedAcrossResets ==
  Cardinality(proc.queue.workers \cup proc.dead) <= proc.cfg.concurrency

\* C24: from start on the Processor holds a queue that is not null and was
\* not killed: every handler of an event and every report of a Task Runner
\* began with such a queue, and a reset, which kills the queue and builds
\* the next one in one handler, leaves such a queue.
C24_LiveQueueForHandlers ==
  /\ proc.subs # <<>> => (proc.queue # Null /\ proc.queue.live)
  /\ last.op \in {"event", "immediate", "done"} =>
       (prev.queue # Null /\ prev.queue.live)
  /\ Event({"reset"}) =>
       /\ proc.queue # Null /\ proc.queue.live
       /\ proc.queue.workers \cap proc.dead = {}

\* A reset reaches a Processor with an item in flight in a killed queue and
\* one in flight in the current queue.
C24_Witness ==
  /\ Event({"reset"})
  /\ prev.dead # {} /\ prev.queue.workers # {}
  /\ proc.queue.live

\* What handling event e once more leaves.
Again(e) == Handle(Fresh(proc), e, 0)

\* C25: the Processor does not deduplicate: every delivery of a run or done
\* message to a running queue appends one item and emits one task = 1
\* observation, also when an item of the same message is pending or in
\* flight, so the deliveries so far are the admitted ones and the ones that
\* found the queue paused, and no delivery is handed to the Task Runner more
\* than once; a pause or a resume delivered again leaves the queue as the
\* first delivery left it, and a reset delivered again leaves a queue of the
\* same pause flag.
C25_NoDeduplication ==
  /\ (Event({"run", "done"}) /\ ~prev.queue.paused) =>
       /\ Len(proc.queue.tasks) = Len(prev.queue.tasks) + 1
       /\ proc.queue.tasks[Len(proc.queue.tasks)] = last.task
       /\ Count(proc.out, Observation("stat", "task", 1)) = 1
  /\ admitted \cup refused = 1..(nextId - 1)
  /\ admitted \cap refused = {}
  /\ \A t \in TaskIds : invoked[t] <= 1
  /\ Event({"pause", "resume"}) => Again(last.name).queue = proc.queue
  /\ Event({"reset"}) => Again(last.name).queue.paused = proc.queue.paused

\* A run message is delivered again while the item of its first delivery is
\* pending, and is admitted.
C25_Witness ==
  /\ Event({"run"}) /\ ~prev.queue.paused
  /\ \E u \in Range(prev.queue.tasks) : Payload(u) = Payload(last.task)
  /\ Len(proc.queue.tasks) = Len(prev.queue.tasks) + 1

\* Where the Server's history has an effect of a kind.
LogOps(op) == {k \in 1..Len(server.log) : server.log[k].op = op}

C27_CallbackOnceAfterWsThenHttp ==
  /\ server.calls <= 1
  /\ server.calls = 1 =>
       /\ server.destroyed
       /\ server.wsServer \in {"none", "closed"}
       /\ server.httpServer \in {"none", "closed"}
       /\ server.log[Len(server.log)] = Effect("callback", 0)
  /\ (server.destroyed /\ server.wsServer # "closing"
        /\ server.httpServer # "closing") => server.calls = 1
  /\ server.httpServer \in {"closing", "closed"} =>
       server.wsServer \in {"none", "closed"}
  /\ (server.calls = 1 /\ server.wsServer = "closed") =>
       server.log = <<Effect("ws.close", 0), Effect("ws.closed", 0),
                      Effect("http.close", 0), Effect("http.closed", 0),
                      Effect("callback", 0)>>

\* A Server with a WsServer and an HttpServer was destroyed, both have
\* closed and the callback was called.
C27_Witness ==
  /\ server.calls = 1
  /\ server.wsServer = "closed" /\ server.httpServer = "closed"
  /\ server.database = "destroyed"

\* The place of a kind of handler in a chain.
Rank(kind) ==
  CASE kind = "validate" -> 1
    [] kind = "allow" -> 2
    [] kind = "authorize" -> 3
    [] kind \in {"query", "cached"} -> 4
    [] kind \in {"respond", "respond()", "end"} -> 5
    [] kind = "publish" -> 6
    [] kind = "subscribe" -> 7

\* The values the handlers of a kind in a chain were made of, in the order
\* of the chain.
Made(chain, kind) ==
  LET Of(h) == h.kind = kind
      hs == SelectSeq(chain, Of)
  IN  [i \in 1..Len(hs) |-> hs[i].of]

\* The builder calls of a name among the first n, in the order they were
\* made.
CallsOf(name, n) ==
  LET Is(i) == route.calls[i] = name
  IN  SelectSeq([i \in 1..n |-> i], Is)

\* C28: every chain registered on the router is in the order validate,
\* allow, authorize, query or cache, respond, publish, subscribe, whatever
\* the order of the builder calls; its validate, allow, authorize and
\* publish handlers are those of the builder calls made before the method
\* call, so that a builder call made after it changes nothing of the chain;
\* it has the query handler or the cache handlers, and one subscribe
\* handler, the last.
C28_ChainOrder ==
  \A n \in 1..Len(server.router) :
    LET e == server.router[n]
        chain == e.handlers
    IN  /\ \A i \in 1..(Len(chain) - 1) :
             Rank(chain[i].kind) <= Rank(chain[i + 1].kind)
        /\ \A kind \in {"validate", "allow", "authorize", "publish"} :
             Made(chain, kind) = CallsOf(kind, e.at)
        /\ LET rs == CallsOf("respond", e.at)
           IN  Made(chain, "respond") =
                 (IF rs = <<>> THEN <<>> ELSE <<rs[Len(rs)]>>)
        /\ IF CallsOf("cache", e.at) = <<>>
           THEN Len(Made(chain, "query")) = 1 /\ Made(chain, "cached") = <<>>
           ELSE Made(chain, "query") = <<>>
                /\ Len(Made(chain, "cached")) \in {1, 2}
        /\ Len(Made(chain, "subscribe")) = 1
        /\ chain[Len(chain)].kind = "subscribe"
        /\ e.extract = (e.method # "GET")

\* A Route whose publish() was called before its validate() was opened, and
\* a builder method was called after that: the validate handler is before
\* the publish handler in the chain.
C28_Witness ==
  /\ Len(server.router) = 1
  /\ server.router[1].at = 2 /\ Len(route.calls) = 3
  /\ route.calls[1] = "publish" /\ route.calls[2] = "validate"
  /\ route.calls[3] \in {"validate", "publish"}
  /\ Made(server.router[1].handlers, "validate") = <<2>>
  /\ Made(server.router[1].handlers, "publish") = <<1>>

====
